---- MODULE Spec2Model ----
(***************************************************************************)
(* Model of 2DMotionPointRobot.py: the grid enumeration of start/goal      *)
(* pairs (get_fixed_start_goal_pairs, _rec_all_states, is_free), the       *)
(* driver plan(), the state propagator propagate(), the validity checker   *)
(* isStateValid(), and the RRT-style planner that plan() invokes.          *)
(*                                                                         *)
(* Real numbers.  A grid coordinate is an exact rational <<n, d>> (d > 0,  *)
(* not reduced): np.linspace(low, high, m) yields low + (high-low)*i/(m-1).*)
(***************************************************************************)
EXTENDS Integers, Sequences, FiniteSets, TLC

VARIABLES
    \* ---- get_fixed_start_goal_pairs(bounds): its frame ----
    gpc,          \* position in the function: "idle", "loop", "returned"
    bounds,       \* the argument: [low |-> Int, high |-> Int]
    grid_marks,   \* local grid_marks
    grid_states,  \* local grid_states (after the is_free filter)
    all_pairs,    \* local all_pairs; the return value once gpc = "returned"
    \* ---- the caller that runs the enumeration twice on the same bounds ----
    run,          \* 0 before the first call, then the number of the call
    first_pairs,  \* what the first call returned
    \* ---- plan(): its frame, the calls it makes on ss / si, its output ----
    ppc,               \* position in plan(): "begin", "pairs", "for", "done"
    start,             \* local start: [x, y, yaw], rationals
    goal,              \* local goal
    pair_points,       \* local start_goal_pairs, kept by the list it was built
                       \* from at line 170: start_goal_pairs = Pairs(pair_points)
    i,                 \* the index of enumerate(start_goal_pairs)
    calls,             \* calls made on ss and si, in order: [op, args]
    solved,            \* what ss.solve returned, as a boolean
    printed,           \* what print() wrote, in order
    \* ---- a call propagate(start, control, duration, state) ----
    heap,          \* the State objects: name -> [x, y, yaw], fixed point
    arg_start,     \* the object passed as start
    arg_state,     \* the object passed as state (the output)
    arg_control,   \* the control passed: <<control[0], control[1]>>
    arg_duration,  \* the duration passed
    saved,         \* the argument values as they were when first called
    ncalls,        \* calls of propagate made so far
    result1,       \* the output state after the first call
    \* ---- ss.solve(budget): the planner ----
    status,        \* "Initialized", "Running", "Solved", "Exhausted"
    tree,          \* the Tree: nodes [state, parent, control, duration]
    goal_node,     \* index in tree of the recorded goal node, 0 if none
    budget,        \* the time budget of the solve call, seconds
    elapsed,       \* seconds elapsed since solve began
    last           \* the latest iteration: its near node, samples, candidate

gridVars == <<gpc, bounds, grid_marks, grid_states, all_pairs>>
callerVars == <<run, first_pairs>>
planVars == <<ppc, start, goal, pair_points, i, calls, solved, printed>>
propVars == <<heap, arg_start, arg_state, arg_control, arg_duration, saved,
              ncalls, result1>>
solveVars == <<status, tree, goal_node, budget, elapsed, last>>
vars == <<gpc, bounds, grid_marks, grid_states, all_pairs, run, first_pairs,
          ppc, start, goal, pair_points, i, calls, solved, printed,
          heap, arg_start, arg_state, arg_control, arg_duration, saved,
          ncalls, result1, status, tree, goal_node, budget, elapsed, last>>

\* ------------------------------------------------------------------ bounds
\* The arguments tried: bounds.low in -MaxLow..-1, bounds.high in 1..MaxHigh.
MaxLow == 5
MaxHigh == 2

\* ------------------------------------------------------------------ constants
FirstGridMarks == 11
PairTarget == 1000
dim == 2

\* ------------------------------------------------------------------ rationals
Abs(n) == IF n < 0 THEN -n ELSE n

\* np.abs(q) >= h, for the rational q = <<n, d>> and the integer h
AbsGE(q, h) == Abs(q[1]) >= h * q[2]

\* ------------------------------------------------------------------ the grid
\* np.linspace(start, stop, num): num evenly spaced marks, both ends included
linspace(first, stop, num) ==
    [k \in 1..num |-> <<first * (num - 1) + (stop - first) * (k - 1), num - 1>>]

\* [... for a in A for b in B] has Len(A) * Len(B) elements; its k-th (from
\* 1) is made of these a and b: a is the outer loop, b the inner one
OuterOf(A, B, k) == A[((k - 1) \div Len(B)) + 1]
InnerOf(A, B, k) == B[((k - 1) % Len(B)) + 1]

RECURSIVE rec_all_states(_, _, _)
rec_all_states(state_index, marks, b) ==
    LET s == linspace(b.low, b.high, marks)
    IN  IF state_index = dim - 1
        THEN [k \in 1..Len(s) |-> <<s[k]>>]
        ELSE LET next_res == rec_all_states(state_index + 1, marks, b)
             IN  [k \in 1..(Len(next_res) * Len(s)) |->
                    <<InnerOf(next_res, s, k)>> \o OuterOf(next_res, s, k)]

\* is_free(coordinates, bounds): no coordinate with |c| >= bounds.high[0]
is_freeBoundaryKept(coordinates, b) ==
    ~ \E k \in 1..Len(coordinates) : Abs(coordinates[k][1]) > b.high * coordinates[k][2]
is_free(coordinates, b) ==
    ~ \E k \in 1..Len(coordinates) : AbsGE(coordinates[k], b.high)

\* line 170: [(s1, s2) for s1 in grid_states for s2 in grid_states]
PairsSwapped(gs) ==
    [k \in 1..(Len(gs) * Len(gs)) |-> <<InnerOf(gs, gs, k), OuterOf(gs, gs, k)>>]
Pairs(gs) ==
    [k \in 1..(Len(gs) * Len(gs)) |-> <<OuterOf(gs, gs, k), InnerOf(gs, gs, k)>>]

\* line 167: the loop condition
LoopCondOnPoints == Len(grid_states) < PairTarget
LoopCond == Len(all_pairs) < PairTarget

\* line 171
NextMarksStuck(m) == m
NextMarks(m) == m + 1

\* ------------------------------------------------------------------ actions
\* lines 165-166: entry of get_fixed_start_goal_pairs(b)
GridEnter(b) ==
    /\ gpc' = "loop"
    /\ bounds' = b
    /\ all_pairs' = <<>>
    /\ grid_marks' = FirstGridMarks
    /\ grid_states' = <<>>

\* lines 167-171: one pass through the loop body
GridLoop ==
    /\ gpc = "loop"
    /\ LoopCond
    /\ \E all \in {rec_all_states(0, grid_marks, bounds)} :
       \E free \in {SelectSeq(all, LAMBDA s : is_free(s, bounds))} :
       \E pairs \in {Pairs(free)} :
          /\ grid_states' = free
          /\ all_pairs' = pairs
    /\ grid_marks' = NextMarks(grid_marks)
    /\ UNCHANGED <<gpc, bounds>>
    /\ UNCHANGED <<callerVars, planVars, propVars, solveVars>>

\* line 172: the loop condition is false, return all_pairs
GridReturn ==
    /\ gpc = "loop"
    /\ ~ LoopCond
    /\ gpc' = "returned"
    /\ UNCHANGED <<bounds, grid_marks, grid_states, all_pairs>>
    /\ UNCHANGED <<callerVars, planVars, propVars, solveVars>>

\* ------------------------------------------------------------------ caller
BoundsTried ==
    {[low |-> -l, high |-> h] : l \in 1..MaxLow, h \in 1..MaxHigh}

GridIdle ==
    /\ gpc = "idle"
    /\ grid_marks = 0
    /\ grid_states = <<>>
    /\ all_pairs = <<>>
    /\ run = 0
    /\ first_pairs = <<>>

PlanIdle ==
    /\ ppc = "idle"
    /\ start = <<>>
    /\ goal = <<>>
    /\ pair_points = <<>>
    /\ i = 0
    /\ calls = <<>>
    /\ solved = FALSE
    /\ printed = <<>>

PropIdle ==
    /\ heap = <<>>
    /\ arg_start = ""
    /\ arg_state = ""
    /\ arg_control = <<>>
    /\ arg_duration = 0
    /\ saved = <<>>
    /\ ncalls = 0
    /\ result1 = <<>>

SolveIdle ==
    /\ status = "Initialized"
    /\ tree = <<>>
    /\ goal_node = 0
    /\ budget = 0
    /\ elapsed = 0
    /\ last = <<>>

InitGrid ==
    /\ GridIdle
    /\ bounds \in BoundsTried
    /\ PlanIdle
    /\ PropIdle
    /\ SolveIdle

\* first call of get_fixed_start_goal_pairs(bounds)
CallFirst ==
    /\ gpc = "idle"
    /\ run = 0
    /\ run' = 1
    /\ GridEnter(bounds)
    /\ UNCHANGED first_pairs
    /\ UNCHANGED <<planVars, propVars, solveVars>>

\* second call on the same bounds, keeping the first result
CallAgain ==
    /\ gpc = "returned"
    /\ run = 1
    /\ run' = 2
    /\ first_pairs' = all_pairs
    /\ GridEnter(bounds)
    /\ UNCHANGED <<planVars, propVars, solveVars>>

NextGrid == CallFirst \/ CallAgain \/ GridLoop \/ GridReturn

\* Python runs the loop to its end: the function's steps are weakly fair.
SpecGrid == InitGrid /\ [][NextGrid]_vars /\ WF_vars(NextGrid)

\* ------------------------------------------------------------------ plan()
\* the literals of plan(), as rationals
Rat(n, d) == <<n, d>>
Zero == Rat(0, 1)
SE2(x, y, yaw) == [x |-> x, y |-> y, yaw |-> yaw]

SolveIndex == 100
GoalTolerance == Rat(5, 100)
StepSize == Rat(1, 10)
SolveSeconds == 20
SolveTime == Rat(SolveSeconds, 1)

Call(op, args) == [op |-> op, args |-> args]

\* lines 151-154: what the driver prints once solve has returned
Report(ok, st, gl, out) ==
    IF ok
    THEN Append(Append(out, <<"start: ", st, "goal: ", gl>>), <<"Found solution:">>)
    ELSE out

\* lines 151-154: the calls on ss the driver makes once solve has returned
AfterSolveCalls(ok) ==
    IF ok THEN <<Call("getSolutionPath", <<>>)>> ELSE <<>>

\* start_goal_pairs[k] (k from 0) and len(start_goal_pairs), for the list
\* built from the points pts
PairAt(pts, k) == Pairs(pts)[k + 1]
NumPairs(pts) == Len(pts) * Len(pts)

\* line 118: the one index plan() configures and solves
IsSolveIndexFrom(k) == k >= SolveIndex
IsSolveIndex(k) == k = SolveIndex

\* lines 120-129: start and goal of a pair, yaw 0
PairStart(pair) == SE2(pair[1][1], pair[1][2], Zero)
PairGoal(pair) == SE2(pair[2][1], pair[2][2], Zero)

\* lines 133-149: the calls on ss and si for one start and goal, in order
SolveCalls(st, gl) ==
    << Call("setStartAndGoalStates", <<st, gl, GoalTolerance>>),
       Call("setPlanner", <<"RRT">>),
       Call("setPropagationStepSize", <<StepSize>>),
       Call("solve", <<SolveTime>>) >>

InitPlan ==
    /\ GridIdle
    /\ bounds = [low |-> 0, high |-> 0]
    /\ PlanIdle
    /\ PropIdle
    /\ SolveIdle

\* lines 79-115: the spaces, their bounds, ss with its validity checker and
\* propagator, the literal start and goal, and the call of
\* get_fixed_start_goal_pairs(bounds)
PlanBegin ==
    /\ ppc = "idle"
    /\ ppc' = "pairs"
    /\ start' = SE2(Rat(-5, 10), Zero, Zero)
    /\ goal' = SE2(Zero, Rat(5, 10), Zero)
    /\ calls' = << Call("setStateValidityChecker", <<"isStateValid">>),
                   Call("setStatePropagator", <<"propagate">>) >>
    /\ GridEnter([low |-> -1, high |-> 1])
    /\ UNCHANGED <<pair_points, i, solved, printed>>
    /\ UNCHANGED <<callerVars, propVars, solveVars>>

\* lines 115-116: get_fixed_start_goal_pairs has returned; its frame is gone
PlanGotPairs ==
    /\ ppc = "pairs"
    /\ gpc = "returned"
    /\ pair_points' = grid_states
    /\ i' = 0
    /\ ppc' = "for"
    /\ gpc' = "idle"
    /\ grid_marks' = 0
    /\ grid_states' = <<>>
    /\ all_pairs' = <<>>
    /\ UNCHANGED <<start, goal, calls, solved, printed>>
    /\ UNCHANGED <<bounds, callerVars, propVars, solveVars>>

\* lines 117-154: one pass of the for loop; ss.solve is the library's, its
\* outcome is either one
PlanFor ==
    /\ ppc = "for"
    /\ i < NumPairs(pair_points)
    /\ LET pair == PairAt(pair_points, i)
       IN  IF IsSolveIndex(i)
           THEN /\ start' = PairStart(pair)
                /\ goal' = PairGoal(pair)
                /\ \E ok \in BOOLEAN :
                      /\ solved' = ok
                      /\ calls' = calls \o SolveCalls(start', goal')
                                        \o AfterSolveCalls(ok)
                      /\ printed' = Report(ok, start', goal',
                                           Append(printed, <<"low[0], high[0]",
                                                  bounds.low, bounds.high>>))
           ELSE UNCHANGED <<start, goal, calls, solved, printed>>
    /\ i' = i + 1
    /\ UNCHANGED <<ppc, pair_points>>
    /\ UNCHANGED <<gridVars, callerVars, propVars, solveVars>>

\* the for loop is exhausted: plan() returns
PlanEnd ==
    /\ ppc = "for"
    /\ i = NumPairs(pair_points)
    /\ ppc' = "done"
    /\ UNCHANGED <<start, goal, pair_points, i, calls, solved, printed>>
    /\ UNCHANGED <<gridVars, callerVars, propVars, solveVars>>

NextPlan == PlanBegin \/ GridLoop \/ GridReturn \/ PlanGotPairs \/ PlanFor \/ PlanEnd

SpecPlan == InitPlan /\ [][NextPlan]_vars

\* ------------------------------------------------------------------ propagate
(***************************************************************************)
(* Fixed point.  The planner's states are [x, y, yaw] with x and y in      *)
(* units of 1/PosScale and yaw in hundredths of a radian; a control is     *)
(* <<v, w>> in tenths, a duration is in tenths of a second; cos and sin    *)
(* are in units of 1/TrigScale.  v * duration * cos is then in units of    *)
(* 1e-6 and is rounded to 1e-4; w * duration is in hundredths of a radian. *)
(***************************************************************************)
PosScale == 10000
TrigScale == 10000

SE2F(x, y, yaw) == [x |-> x, y |-> y, yaw |-> yaw]

\* round(math.cos(k / 100) * TrigScale) for k = 0 .. 500, entry k + 1
CosTable ==
    << 10000, 10000, 9998, 9996, 9992, 9988, 9982, 9976, 9968, 9960,
       9950, 9940, 9928, 9916, 9902, 9888, 9872, 9856, 9838, 9820,
       9801, 9780, 9759, 9737, 9713, 9689, 9664, 9638, 9611, 9582,
       9553, 9523, 9492, 9460, 9428, 9394, 9359, 9323, 9287, 9249,
       9211, 9171, 9131, 9090, 9048, 9004, 8961, 8916, 8870, 8823,
       8776, 8727, 8678, 8628, 8577, 8525, 8473, 8419, 8365, 8309,
       8253, 8196, 8139, 8080, 8021, 7961, 7900, 7838, 7776, 7712,
       7648, 7584, 7518, 7452, 7385, 7317, 7248, 7179, 7109, 7038,
       6967, 6895, 6822, 6749, 6675, 6600, 6524, 6448, 6372, 6294,
       6216, 6137, 6058, 5978, 5898, 5817, 5735, 5653, 5570, 5487,
       5403, 5319, 5234, 5148, 5062, 4976, 4889, 4801, 4713, 4625,
       4536, 4447, 4357, 4267, 4176, 4085, 3993, 3902, 3809, 3717,
       3624, 3530, 3436, 3342, 3248, 3153, 3058, 2963, 2867, 2771,
       2675, 2579, 2482, 2385, 2288, 2190, 2092, 1994, 1896, 1798,
       1700, 1601, 1502, 1403, 1304, 1205, 1106, 1006, 907, 807,
       707, 608, 508, 408, 308, 208, 108, 8, -92, -192,
       -292, -392, -492, -592, -691, -791, -891, -990, -1090, -1189,
       -1288, -1388, -1487, -1585, -1684, -1782, -1881, -1979, -2077, -2175,
       -2272, -2369, -2466, -2563, -2660, -2756, -2852, -2948, -3043, -3138,
       -3233, -3327, -3421, -3515, -3609, -3702, -3795, -3887, -3979, -4070,
       -4161, -4252, -4342, -4432, -4522, -4611, -4699, -4787, -4875, -4962,
       -5048, -5135, -5220, -5305, -5390, -5474, -5557, -5640, -5722, -5804,
       -5885, -5966, -6046, -6125, -6204, -6282, -6359, -6436, -6512, -6588,
       -6663, -6737, -6811, -6883, -6956, -7027, -7098, -7168, -7237, -7306,
       -7374, -7441, -7508, -7573, -7638, -7702, -7766, -7828, -7890, -7951,
       -8011, -8071, -8130, -8187, -8244, -8301, -8356, -8410, -8464, -8517,
       -8569, -8620, -8670, -8720, -8768, -8816, -8863, -8908, -8953, -8998,
       -9041, -9083, -9124, -9165, -9204, -9243, -9281, -9318, -9353, -9388,
       -9422, -9455, -9487, -9518, -9549, -9578, -9606, -9633, -9660, -9685,
       -9710, -9733, -9755, -9777, -9797, -9817, -9836, -9853, -9870, -9885,
       -9900, -9914, -9926, -9938, -9948, -9958, -9967, -9974, -9981, -9987,
       -9991, -9995, -9998, -9999, -10000, -10000, -9998, -9996, -9993, -9988,
       -9983, -9977, -9969, -9961, -9952, -9941, -9930, -9918, -9904, -9890,
       -9875, -9859, -9841, -9823, -9804, -9784, -9762, -9740, -9717, -9693,
       -9668, -9642, -9615, -9587, -9558, -9528, -9497, -9466, -9433, -9399,
       -9365, -9329, -9293, -9255, -9217, -9178, -9137, -9096, -9054, -9011,
       -8968, -8923, -8877, -8831, -8783, -8735, -8686, -8636, -8585, -8534,
       -8481, -8428, -8373, -8318, -8262, -8206, -8148, -8090, -8030, -7970,
       -7910, -7848, -7786, -7723, -7659, -7594, -7529, -7462, -7395, -7328,
       -7259, -7190, -7120, -7050, -6978, -6907, -6834, -6761, -6686, -6612,
       -6536, -6460, -6384, -6306, -6229, -6150, -6071, -5991, -5911, -5830,
       -5748, -5666, -5583, -5500, -5416, -5332, -5247, -5162, -5076, -4990,
       -4903, -4815, -4727, -4639, -4550, -4461, -4371, -4281, -4190, -4099,
       -4008, -3916, -3824, -3731, -3638, -3545, -3451, -3357, -3263, -3168,
       -3073, -2978, -2882, -2787, -2690, -2594, -2497, -2400, -2303, -2206,
       -2108, -2010, -1912, -1814, -1715, -1617, -1518, -1419, -1320, -1221,
       -1122, -1022, -923, -823, -723, -623, -524, -424, -324, -224,
       -124, -24, 76, 176, 276, 376, 476, 576, 676, 775,
       875, 975, 1074, 1173, 1273, 1372, 1471, 1570, 1668, 1767,
       1865, 1963, 2061, 2159, 2257, 2354, 2451, 2548, 2644, 2741,
       2837 >>

\* round(math.sin(k / 100) * TrigScale) for k = 0 .. 500, entry k + 1
SinTable ==
    << 0, 100, 200, 300, 400, 500, 600, 699, 799, 899,
       998, 1098, 1197, 1296, 1395, 1494, 1593, 1692, 1790, 1889,
       1987, 2085, 2182, 2280, 2377, 2474, 2571, 2667, 2764, 2860,
       2955, 3051, 3146, 3240, 3335, 3429, 3523, 3616, 3709, 3802,
       3894, 3986, 4078, 4169, 4259, 4350, 4439, 4529, 4618, 4706,
       4794, 4882, 4969, 5055, 5141, 5227, 5312, 5396, 5480, 5564,
       5646, 5729, 5810, 5891, 5972, 6052, 6131, 6210, 6288, 6365,
       6442, 6518, 6594, 6669, 6743, 6816, 6889, 6961, 7033, 7104,
       7174, 7243, 7311, 7379, 7446, 7513, 7578, 7643, 7707, 7771,
       7833, 7895, 7956, 8016, 8076, 8134, 8192, 8249, 8305, 8360,
       8415, 8468, 8521, 8573, 8624, 8674, 8724, 8772, 8820, 8866,
       8912, 8957, 9001, 9044, 9086, 9128, 9168, 9208, 9246, 9284,
       9320, 9356, 9391, 9425, 9458, 9490, 9521, 9551, 9580, 9608,
       9636, 9662, 9687, 9711, 9735, 9757, 9779, 9799, 9819, 9837,
       9854, 9871, 9887, 9901, 9915, 9927, 9939, 9949, 9959, 9967,
       9975, 9982, 9987, 9992, 9995, 9998, 9999, 10000, 10000, 9998,
       9996, 9992, 9988, 9982, 9976, 9969, 9960, 9951, 9940, 9929,
       9917, 9903, 9889, 9874, 9857, 9840, 9822, 9802, 9782, 9761,
       9738, 9715, 9691, 9666, 9640, 9613, 9585, 9556, 9526, 9495,
       9463, 9430, 9396, 9362, 9326, 9290, 9252, 9214, 9174, 9134,
       9093, 9051, 9008, 8964, 8919, 8874, 8827, 8780, 8731, 8682,
       8632, 8581, 8529, 8477, 8423, 8369, 8314, 8258, 8201, 8143,
       8085, 8026, 7966, 7905, 7843, 7781, 7718, 7654, 7589, 7523,
       7457, 7390, 7322, 7254, 7185, 7115, 7044, 6973, 6901, 6828,
       6755, 6681, 6606, 6530, 6454, 6378, 6300, 6222, 6144, 6065,
       5985, 5904, 5823, 5742, 5660, 5577, 5494, 5410, 5325, 5240,
       5155, 5069, 4983, 4896, 4808, 4720, 4632, 4543, 4454, 4364,
       4274, 4183, 4092, 4001, 3909, 3817, 3724, 3631, 3538, 3444,
       3350, 3255, 3161, 3066, 2970, 2875, 2779, 2683, 2586, 2489,
       2392, 2295, 2198, 2100, 2002, 1904, 1806, 1708, 1609, 1510,
       1411, 1312, 1213, 1114, 1014, 915, 815, 715, 616, 516,
       416, 316, 216, 116, 16, -84, -184, -284, -384, -484,
       -584, -684, -783, -883, -982, -1082, -1181, -1281, -1380, -1479,
       -1577, -1676, -1775, -1873, -1971, -2069, -2167, -2264, -2362, -2459,
       -2555, -2652, -2748, -2844, -2940, -3035, -3131, -3225, -3320, -3414,
       -3508, -3601, -3694, -3787, -3880, -3971, -4063, -4154, -4245, -4335,
       -4425, -4515, -4604, -4692, -4780, -4868, -4955, -5042, -5128, -5213,
       -5298, -5383, -5467, -5550, -5633, -5716, -5797, -5879, -5959, -6039,
       -6119, -6197, -6276, -6353, -6430, -6506, -6582, -6657, -6731, -6805,
       -6878, -6950, -7021, -7092, -7162, -7232, -7301, -7369, -7436, -7502,
       -7568, -7633, -7697, -7761, -7823, -7885, -7946, -8007, -8066, -8125,
       -8183, -8240, -8296, -8352, -8406, -8460, -8513, -8565, -8616, -8666,
       -8716, -8764, -8812, -8859, -8905, -8950, -8994, -9037, -9080, -9121,
       -9162, -9201, -9240, -9278, -9315, -9351, -9386, -9420, -9453, -9485,
       -9516, -9546, -9576, -9604, -9631, -9658, -9683, -9708, -9731, -9754,
       -9775, -9796, -9816, -9834, -9852, -9868, -9884, -9899, -9912, -9925,
       -9937, -9948, -9957, -9966, -9974, -9981, -9986, -9991, -9995, -9997,
       -9999, -10000, -10000, -9998, -9996, -9993, -9989, -9983, -9977, -9970,
       -9962, -9952, -9942, -9931, -9919, -9905, -9891, -9876, -9860, -9843,
       -9825, -9805, -9785, -9764, -9742, -9719, -9695, -9670, -9644, -9617,
       -9589 >>

\* math.cos and math.sin of yaw (hundredths of a radian, |yaw| <= 500),
\* to the nearest unit of 1/TrigScale; cos is even and sin is odd
CosFixed(yaw) == CosTable[Abs(yaw) + 1]
SinFixed(yaw) == IF yaw < 0 THEN - SinTable[1 - yaw] ELSE SinTable[yaw + 1]

\* control[0] * duration * trig, rounded to units of 1/PosScale
Disp(v, d, trig) == (v * d * trig + 50) \div 100

\* line 73: state.setX(start.getX() + control[0] * duration * cos(start.getYaw()))
SetXWithSin(h, st, c, d, out) ==
    [h EXCEPT ![out].x = h[st].x + Disp(c[1], d, SinFixed(h[st].yaw))]
SetX(h, st, c, d, out) ==
    [h EXCEPT ![out].x = h[st].x + Disp(c[1], d, CosFixed(h[st].yaw))]

\* line 74: state.setY(start.getY() + control[0] * duration * sin(start.getYaw()))
SetY(h, st, c, d, out) ==
    [h EXCEPT ![out].y = h[st].y + Disp(c[1], d, SinFixed(h[st].yaw))]

\* line 75: state.setYaw(start.getYaw() + control[1] * duration)
SetYaw(h, st, c, d, out) ==
    [h EXCEPT ![out].yaw = h[st].yaw + c[2] * d]

\* lines 72-75: the heap after propagate(st, c, d, out); st and out name
\* objects of the heap h and may name the same one
propagateYawFirst(h, st, c, d, out) ==
    SetY(SetX(SetYaw(h, st, c, d, out), st, c, d, out), st, c, d, out)
propagate(h, st, c, d, out) ==
    SetYaw(SetY(SetX(h, st, c, d, out), st, c, d, out), st, c, d, out)

\* ---- calls of propagate on arguments drawn from small sets ----
Objects == {"a", "b"}
XTried == {-6000, 0}
YTried == {-8000, 5000}
YawTried == {-320, -157, -30, 0, 45, 157, 313}
VTried == {-3, 0, 2, 3}
WTried == {-3, 0, 3}
DurationTried == {1, 10}

InitProp ==
    /\ GridIdle
    /\ bounds = [low |-> 0, high |-> 0]
    /\ PlanIdle
    /\ \E x \in XTried, y \in YTried, yaw \in YawTried :
          heap = [o \in Objects |->
                    IF o = "a" THEN SE2F(x, y, yaw) ELSE SE2F(0, 0, 0)]
    /\ arg_start \in Objects
    /\ arg_state \in Objects
    /\ arg_control \in VTried \X WTried
    /\ arg_duration \in DurationTried
    /\ saved = <<>>
    /\ ncalls = 0
    /\ result1 = <<>>
    /\ SolveIdle

\* propagate(start, control, duration, state), first call
PropCall ==
    /\ ncalls = 0
    /\ saved' = [start |-> heap[arg_start], state |-> heap[arg_state],
                 control |-> arg_control, duration |-> arg_duration, heap |-> heap]
    /\ heap' = propagate(heap, arg_start, arg_control, arg_duration, arg_state)
    /\ result1' = heap'[arg_state]
    /\ ncalls' = 1
    /\ UNCHANGED <<arg_start, arg_state, arg_control, arg_duration>>
    /\ UNCHANGED <<gridVars, callerVars, planVars, solveVars>>

\* a second call with arguments identical to those of the first
PropCallAgain ==
    /\ ncalls = 1
    /\ heap[arg_start] = saved.start
    /\ heap' = propagate(heap, arg_start, arg_control, arg_duration, arg_state)
    /\ ncalls' = 2
    /\ UNCHANGED <<arg_start, arg_state, arg_control, arg_duration, saved, result1>>
    /\ UNCHANGED <<gridVars, callerVars, planVars, solveVars>>

NextProp == PropCall \/ PropCallAgain

SpecProp == InitProp /\ [][NextProp]_vars

\* ------------------------------------------------------------------ solve
\* a rational as a fixed-point number, units of 1/PosScale
ToFixed(q) == (q[1] * PosScale) \div q[2]

\* an SE2 state of plan() (rationals; yaw only ever 0) as a fixed-point state
FixedState(st) == SE2F(ToFixed(st.x), ToFixed(st.y), ToFixed(st.yaw) \div 100)

\* spaceInformation.satisfiesBounds(state): x and y within the bounds set on
\* the R^2 part of the space
satisfiesBounds(b, st) ==
    /\ b.low * PosScale <= st.x /\ st.x <= b.high * PosScale
    /\ b.low * PosScale <= st.y /\ st.y <= b.high * PosScale

\* lines 67-70
isStateValidAlways(b, st) == TRUE
isStateValid(b, st) == satisfiesBounds(b, st)

\* the state propagate(start, control, duration, state) leaves in a fresh
\* output object
Propagated(st, c, d) ==
    LET h == [o \in {"start", "state"} |-> st]
    IN  propagate(h, "start", c, d, "state")["state"]

\* lines 93-94: the control bounds, in tenths
CLow == -3
CHigh == 3

\* StateSpace.distance squared: Euclidean in (x, y), yaw ignored
Dist2(a, b) == (a.x - b.x) * (a.x - b.x) + (a.y - b.y) * (a.y - b.y)

\* the goal region: within goalTolerance of the goal
Tol == ToFixed(GoalTolerance)
InGoal(st, gl) == Dist2(st, gl) <= Tol * Tol

\* Tree.nearest: the node closest to target, the earliest inserted on ties
Nearest(t, target) ==
    CHOOSE k \in 1..Len(t) :
        \A j \in 1..Len(t) :
            \/ Dist2(t[k].state, target) < Dist2(t[j].state, target)
            \/ (Dist2(t[k].state, target) = Dist2(t[j].state, target) /\ k <= j)

\* ---- what the samplers may draw: finite subsets of the sampled ranges ----
\* at most MaxIters iterations fit in a positive budget
MaxIters == 2
\* a control is applied for MinSteps to MaxSteps propagation steps of StepSize
MinSteps == 20
MaxSteps == 24

TargetSamples(gl) ==
    {gl, SE2F(-8000, -8000, 0), SE2F(8000, 8000, 0)}
ControlSamples == {CLow, 0, CHigh} \X {CLow, 0, CHigh}
\* the propagation step size, in tenths of a second
StepTenths == (StepSize[1] * 10) \div StepSize[2]
DurationSamples == {MinSteps * StepTenths, MaxSteps * StepTenths}
IterTimes(b) == {(b + MaxIters - 1) \div MaxIters, b}

\* the free grid points of the first pass of get_fixed_start_goal_pairs for
\* the bounds of plan(), where its loop ends
PlanPoints ==
    SelectSeq(rec_all_states(0, FirstGridMarks, [low |-> -1, high |-> 1]),
              LAMBDA s : is_free(s, [low |-> -1, high |-> 1]))

\* plan() at line 149: ss configured as by lines 79-146 for the pair of index
\* SolveIndex, line 130 printed, the budget of line 149
InitSolve ==
    /\ GridIdle
    /\ bounds = [low |-> -1, high |-> 1]
    /\ PropIdle
    /\ ppc = "configured"
    /\ i = SolveIndex
    /\ start = PairStart(PairAt(PlanPoints, i))
    /\ goal = PairGoal(PairAt(PlanPoints, i))
    /\ pair_points = PlanPoints
    /\ calls = << Call("setStateValidityChecker", <<"isStateValid">>),
                  Call("setStatePropagator", <<"propagate">>),
                  Call("setStartAndGoalStates", <<start, goal, GoalTolerance>>),
                  Call("setPlanner", <<"RRT">>),
                  Call("setPropagationStepSize", <<StepSize>>) >>
    /\ solved = FALSE
    /\ printed = << <<"low[0], high[0]", bounds.low, bounds.high>> >>
    /\ status = "Initialized"
    /\ tree = <<>>
    /\ goal_node = 0
    /\ budget = SolveSeconds
    /\ elapsed = 0
    /\ last = <<>>

\* the budget check made once per iteration
BudgetLeft == elapsed < budget

\* line 149, entry of solve: Initialized -> Running, the Tree gets its root
SolveBegin ==
    /\ ppc = "configured"
    /\ status = "Initialized"
    /\ status' = "Running"
    /\ tree' = << [state |-> FixedState(start), parent |-> 0,
                   control |-> <<>>, duration |-> 0] >>
    /\ calls' = Append(calls, Call("solve", <<Rat(budget, 1)>>))
    /\ UNCHANGED <<goal_node, budget, elapsed, last>>
    /\ UNCHANGED <<ppc, start, goal, pair_points, i, solved, printed>>
    /\ UNCHANGED <<gridVars, callerVars, propVars>>

\* one iteration of the Running loop: sample a target, take the nearest
\* node, sample a control and a duration, propagate, check validity, insert,
\* test the goal
RRTIterate ==
    /\ status = "Running"
    /\ BudgetLeft
    /\ \E target \in TargetSamples(FixedState(goal)),
          c \in ControlSamples, d \in DurationSamples, dt \in IterTimes(budget) :
          LET near == Nearest(tree, target)
              candidate == Propagated(tree[near].state, c, d)
              valid == isStateValid(bounds, candidate)
              newNode == [state |-> candidate, parent |-> near,
                          control |-> c, duration |-> d]
          IN  /\ elapsed' = elapsed + dt
              /\ last' = [at |-> elapsed', near |-> near, control |-> c,
                          duration |-> d, candidate |-> candidate]
              /\ IF valid
                 THEN /\ tree' = Append(tree, newNode)
                      /\ IF InGoal(candidate, FixedState(goal))
                         THEN status' = "Solved" /\ goal_node' = Len(tree')
                         ELSE UNCHANGED <<status, goal_node>>
                 ELSE UNCHANGED <<tree, status, goal_node>>
    /\ UNCHANGED budget
    /\ UNCHANGED <<gridVars, callerVars, planVars, propVars>>

\* Running -> Exhausted: the budget has elapsed
RRTExhaust ==
    /\ status = "Running"
    /\ ~ BudgetLeft
    /\ status' = "Exhausted"
    /\ UNCHANGED <<tree, goal_node, budget, elapsed, last>>
    /\ UNCHANGED <<gridVars, callerVars, planVars, propVars>>

\* lines 149-154: solve returns, solved is bound to the value returned and
\* `if solved:` tests its truth value ok; which of the planner's outcomes give
\* a true value is the library's, as in PlanFor
SolveReturn ==
    /\ ppc = "configured"
    /\ status \in {"Solved", "Exhausted"}
    /\ ppc' = "reported"
    /\ \E ok \in BOOLEAN :
          /\ solved' = ok
          /\ calls' = calls \o AfterSolveCalls(ok)
          /\ printed' = Report(ok, start, goal, printed)
    /\ UNCHANGED <<start, goal, pair_points, i>>
    /\ UNCHANGED <<gridVars, callerVars, propVars, solveVars>>

NextSolve == SolveBegin \/ RRTIterate \/ RRTExhaust \/ SolveReturn

SpecSolve == InitSolve /\ [][NextSolve]_vars

\* ================================================================== claims
\* ---- helpers of the statements, written from the claims' words ----
UnitBounds == [low |-> -1, high |-> 1]

\* the j-th mark (j from 0) of m evenly spaced marks on [b.low, b.high]
Mark(b, m, j) == <<b.low * (m - 1) + (b.high - b.low) * j, m - 1>>

\* a mark strictly inside (-b.high, b.high)
MarkFree(b, q) == -(b.high * q[2]) < q[1] /\ q[1] < b.high * q[2]

\* how many free grid points m marks per axis give
FreeCount(b, m) ==
    LET per == Cardinality({j \in 0..(m - 1) : MarkFree(b, Mark(b, m, j))})
    IN  per * per

\* the free grid points of m marks per axis, first coordinate varying fastest
FreeGrid(b, m) ==
    LET full == [k \in 1..(m * m) |->
                    <<Mark(b, m, (k - 1) % m), Mark(b, m, (k - 1) \div m)>>]
    IN  SelectSeq(full, LAMBDA s : MarkFree(b, s[1]) /\ MarkFree(b, s[2]))

\* the resolution of the last pass of the loop
LastMarks == grid_marks - 1

\* C1 as stated: when get_fixed_start_goal_pairs returns for bounds
\* [-1,1]^2, the free grid points of the last resolution number at least 1000.
C1_FreePointsReachTarget ==
    (gpc = "returned" /\ bounds = UnitBounds) => Len(grid_states) >= PairTarget

\* C1 amended: the loop starts at 11 marks and runs until at least 1000
\* ordered PAIRS exist: after any pass every earlier resolution gave fewer
\* than 1000 pairs, at the return the pair list (the square of the free list)
\* has at least 1000 entries, and for bounds [-1,1]^2 the return comes after
\* the first pass, at 11 marks, with 81 free points.
C1_PairsReachTarget ==
    /\ (gpc = "loop" /\ all_pairs = <<>>) => grid_marks = FirstGridMarks
    /\ (gpc \in {"loop", "returned"} /\ grid_marks > FirstGridMarks) =>
          /\ Len(all_pairs) = Len(grid_states) * Len(grid_states)
          /\ \A m \in FirstGridMarks..(LastMarks - 1) :
                FreeCount(bounds, m) * FreeCount(bounds, m) < PairTarget
    /\ gpc = "returned" =>
          /\ Len(all_pairs) >= PairTarget
          /\ Len(grid_states) = FreeCount(bounds, LastMarks)
          /\ bounds = UnitBounds =>
                (LastMarks = FirstGridMarks /\ Len(grid_states) = 81)

C1_Witness ==
    /\ gpc = "returned"
    /\ bounds = UnitBounds
    /\ Len(grid_states) = 81
    /\ Len(all_pairs) = 6561

\* C2: the loop of get_fixed_start_goal_pairs terminates (for bounds
\* [-1,1]^2 and for every other bounds tried), and a second run on the same
\* bounds returns the same list of pairs in the same order as the first.
C2_TerminatesAndRepeats ==
    /\ <>(gpc = "returned" /\ run = 2)
    /\ [](gpc = "returned" => ~ LoopCond)
    /\ []((gpc = "returned" /\ run = 2) => all_pairs = first_pairs)

C2_Witness ==
    /\ gpc = "returned"
    /\ run = 2
    /\ bounds = UnitBounds
    /\ grid_marks = FirstGridMarks + 1
    /\ Len(first_pairs) >= PairTarget
    /\ all_pairs = first_pairs

\* C3: the returned list is exactly the ordered pairs of the free grid points
\* of the final resolution: n*n entries, entry i (from 0) is
\* (free[i div n], free[i mod n]), free being the filtered grid with the
\* first coordinate varying fastest and without repetition, so that every
\* ordered pair, s1 = s2 included, occurs exactly once.
C3_AllOrderedPairs ==
    gpc = "returned" =>
        LET free == FreeGrid(bounds, LastMarks)
            n == Len(free)
        IN  /\ grid_states = free
            /\ \A a, b \in 1..n : a # b => free[a] # free[b]
            /\ Len(all_pairs) = n * n
            /\ \A k \in 0..(n * n - 1) :
                  all_pairs[k + 1] = <<free[(k \div n) + 1], free[(k % n) + 1]>>

C3_Witness ==
    /\ gpc = "returned"
    /\ bounds = UnitBounds
    /\ Len(all_pairs) = 81 * 81
    /\ all_pairs[1] = <<grid_states[1], grid_states[1]>>
    /\ all_pairs[2] = <<grid_states[1], grid_states[2]>>
    /\ all_pairs[82] = <<grid_states[2], grid_states[1]>>
    /\ grid_states[2] = <<Rat(-6, 10), Rat(-8, 10)>>

\* ---- the Euler step, written from the contract of 4.3 ----
\* x + v * duration * cos(yaw), y + v * duration * sin(yaw), yaw + w * duration
EulerStep(s, c, d) ==
    [x |-> s.x + (c[1] * d * CosFixed(s.yaw) + 50) \div 100,
     y |-> s.y + (c[1] * d * SinFixed(s.yaw) + 50) \div 100,
     yaw |-> s.yaw + c[2] * d]

\* C4: after propagate(start, control, duration, state) the output state is
\* the Euler step of the start, control and duration passed, whatever they
\* are, and a second call with identical arguments gives the identical result.
C4_EulerStep ==
    /\ ncalls >= 1 => result1 = EulerStep(saved.start, saved.control, saved.duration)
    /\ ncalls = 2 => heap[arg_state] = result1

C4_Witness ==
    /\ ncalls = 2
    /\ arg_start # arg_state
    /\ saved.start = SE2F(-6000, -8000, 45)
    /\ saved.control = <<3, -3>>
    /\ saved.duration = 10
    /\ heap[arg_state] = SE2F(-6000 + 2701, -8000 + 1305, 15)

\* C10: propagate writes the output state only.  With a distinct output
\* object, start, control, duration and every other object are as before the
\* call; with the output object being start itself, the writes x, y, yaw in
\* that order still give the Euler step of the start as it was before the call.
C10_OnlyOutputWritten ==
    ncalls >= 1 =>
        /\ arg_control = saved.control
        /\ arg_duration = saved.duration
        /\ \A o \in Objects \ {arg_state} : heap[o] = saved.heap[o]
        /\ arg_state # arg_start => heap[arg_start] = saved.start
        /\ (arg_state = arg_start /\ ncalls = 1) =>
              heap[arg_start] = EulerStep(saved.start, saved.control, saved.duration)

C10_Witness ==
    /\ ncalls = 1
    /\ arg_state = arg_start
    /\ saved.control = <<3, 3>>
    /\ saved.duration = 10
    /\ saved.start.yaw = 45
    /\ heap[arg_start].yaw = 75
    /\ heap[arg_start].x = saved.start.x + 2701

\* ---- the validity of 4.4, written from the claim: x and y within Bounds ----
WithinBounds(st) ==
    /\ -PosScale <= st.x /\ st.x <= PosScale
    /\ -PosScale <= st.y /\ st.y <= PosScale

\* C5: every non-root node of the Tree holds a state within the bounds; an
\* iteration appends its candidate to the Tree when the candidate is within
\* the bounds and leaves the Tree unchanged when it is not.
C5_OnlyValidStatesEnterTree ==
    /\ [](\A k \in 2..Len(tree) : WithinBounds(tree[k].state))
    /\ [][ (status = "Running" /\ elapsed' # elapsed) =>
              IF WithinBounds(last'.candidate)
              THEN /\ Len(tree') = Len(tree) + 1
                   /\ SubSeq(tree', 1, Len(tree)) = tree
                   /\ tree'[Len(tree')].state = last'.candidate
              ELSE tree' = tree ]_vars

\* a candidate out of bounds has just been rejected, after one was accepted
C5_Witness ==
    /\ Len(tree) = 2
    /\ WithinBounds(tree[2].state)
    /\ last # <<>>
    /\ ~ WithinBounds(last.candidate)
    /\ last.near = 2

\* ---- plan() ----
SolveCallIndices == {k \in 1..Len(calls) : calls[k].op = "solve"}

\* C8: plan() calls solve once per run, for the pair at index 100 only, after
\* setStartAndGoalStates(start, goal, 0.05), setPlanner(RRT) and
\* setPropagationStepSize(0.1) in that order, with budget 20; start and goal
\* are that pair's coordinates with yaw 0, (-0.6, -0.8, 0) and
\* (-0.6, -0.4, 0), not the literals assigned earlier; at any other index
\* nothing is configured or solved.
C8_SolveOnceAtIndex100 ==
    /\ [][ (ppc = "for" /\ i # 100) =>
              (calls' = calls /\ start' = start /\ goal' = goal /\ solved' = solved) ]_vars
    /\ []( (ppc = "for" /\ i <= 100) => SolveCallIndices = {} )
    /\ []( ((ppc = "for" /\ i > 100) \/ ppc = "done") =>
              /\ Cardinality(SolveCallIndices) = 1
              /\ start = SE2(Rat(-6, 10), Rat(-8, 10), Rat(0, 1))
              /\ goal = SE2(Rat(-6, 10), Rat(-4, 10), Rat(0, 1))
              /\ Len(calls) >= 6
              /\ calls[3].op = "setStartAndGoalStates"
              /\ calls[3].args = <<start, goal, Rat(5, 100)>>
              /\ calls[4].op = "setPlanner"
              /\ calls[4].args = <<"RRT">>
              /\ calls[5].op = "setPropagationStepSize"
              /\ calls[5].args = <<Rat(1, 10)>>
              /\ calls[6].op = "solve"
              /\ calls[6].args = <<Rat(20, 1)>> )

C8_Witness ==
    /\ ppc = "done"
    /\ i = 6561
    /\ Cardinality(SolveCallIndices) = 1
    /\ start.x = Rat(-6, 10)
    /\ goal.y = Rat(-4, 10)
    /\ ~ solved

\* C9: every start and every goal of every returned pair has each coordinate
\* c with |c| < bounds.high[0], the marks on the boundary being excluded, and
\* so passes the bounds validity check isStateValid.
C9_PairsStrictlyInside ==
    gpc = "returned" =>
        \A k \in 1..Len(all_pairs) : \A e \in 1..2 :
            LET s == all_pairs[k][e]
            IN  /\ Len(s) = dim
                /\ \A c \in 1..dim :
                      /\ Abs(s[c][1]) < bounds.high * s[c][2]
                      /\ bounds.low * s[c][2] <= s[c][1]
                /\ isStateValid(bounds, SE2F(ToFixed(s[1]), ToFixed(s[2]), 0))

C9_Witness ==
    /\ gpc = "returned"
    /\ bounds = UnitBounds
    /\ all_pairs[1] = << <<Rat(-8, 10), Rat(-8, 10)>>, <<Rat(-8, 10), Rat(-8, 10)>> >>
    /\ all_pairs[6561] = << <<Rat(8, 10), Rat(8, 10)>>, <<Rat(8, 10), Rat(8, 10)>> >>

====
